---- MODULE Spec2Model ----
(***************************************************************************)
(* Model of the browser client src/main.js (second, current version of the *)
(* file, lines 599-1731): avatar movement, proximity flags, the terminal   *)
(* session, the query client and the image poller.                         *)
(*                                                                         *)
(* Lengths are integers in units of 0.05 m (20 units = 1 m), so that every *)
(* literal of the source (0.3, 1.2, 1.5, 1.7, 1.75, 3.5, 9, 10, 50) is an  *)
(* integer and distances are compared by their squares.                    *)
(***************************************************************************)
EXTENDS Integers, Sequences, FiniteSets

(* ------------------------------------------------------------------ *)
(* Program constants, in units of 0.05 m                              *)
(* ------------------------------------------------------------------ *)
INTERACTION_DISTANCE == 70
PLAYER_HEIGHT == 34
IndoorLift == 1
HalfWorldSize == 1000
HalfHouseSize == 200
HalfInnerSize == 180
WallOffset == 6
HalfDoorWidth == 30
TreeRadius == 24
DoorOutsideZ == -240
DoorInsideZ == -160
HistoryCap == 10

TvPosition == [x |-> 0, y |-> 40, z |-> 80]
ComputerPosition == [x |-> -140, y |-> 26, z |-> 140]
SpawnPosition == [x |-> 0, y |-> PLAYER_HEIGHT, z |-> 400]

(* ------------------------------------------------------------------ *)
(* Bounds of the model                                                *)
(* ------------------------------------------------------------------ *)
MaxInFlight == 2
MaxLog == 4
CapInFlight == 1
CapLog == 12
MaxStatus == 1
MaxPolls == 1
MaxLoads == 3
MaxTextures == 3
MaxTicks == 2
MaxImages == 3

VARIABLES
    player,              \* player.position: [x, y, z]
    yaw,                 \* player.rotation.y in quarter turns (0..3)
    trees,               \* set of tree positions [x, z]
    keysPressed,         \* set of movement keys currently down
    mouseLocked,
    pointerLock,         \* document.pointerLockElement === canvas
    lockRequest,         \* pointer-lock change the browser is about to announce:
                         \* "", "lock" or "unlock"
    isTerminalOpen,
    interactionType,     \* "", "computer" or "tv"
    playerNearTV,
    playerNearComputer,
    playerNearDoor,
    instructions,        \* text of the #instructions element
    terminalStatus,      \* text of the #terminalStatus element
    terminalInput,       \* terminalInput.value
    inputFocused,        \* document.activeElement === terminalInput
    terminalMessages,    \* children of #terminalMessages: sequence of [sender, text]
    messageHistory,      \* sequence of turns [role, content, earlier]; the history
                         \* field `earlier` records that the turn comes from a
                         \* request submitted before the current session was opened
    queries,             \* sendQuery calls suspended at an await: [text, pc, body]
                         \* (body: the JSON sent) with the history fields before
                         \* (messageHistory at the submit), earlier (submitted
                         \* before the current session was opened) and solo (no
                         \* other request in flight since)
    statusFetches,       \* fetchStatus calls suspended at an await
    lastCheckedImageTime,
    now,                 \* Date.now() in ms
    polls,               \* gallery requests in flight: "primary" or "legacy"
    imageLoads,          \* texture loads in flight: [url, seq], the full image
                         \* URL and the history field seq, the rank of the call of
                         \* loadImageToDisplay that started the load
    loadsIssued,         \* history: number of calls of loadImageToDisplay so far
    currentImageTexture, \* 0 (undefined) or the id of a loaded texture
    imageMaterial,       \* imageDisplay.material: [kind, map] with the history
                         \* field load, the seq of the load that set it (0: none)
    disposedTextures,    \* ids of the textures on which dispose() was called
    texturesCreated,     \* the texture objects created so far: the image URL of
                         \* each, a texture's id being its index
    toolCall             \* the generate_image call that the image-generation
                         \* server is handling: [imageData, index, savedImagePaths,
                         \* files, responseText, pc]

session == <<isTerminalOpen, interactionType>>
flags == <<playerNearTV, playerNearComputer, playerNearDoor>>
pointer == <<mouseLocked, pointerLock, lockRequest>>
world == <<trees, toolCall>>
avatar == <<player, yaw, world, keysPressed>>
dom == <<instructions, terminalStatus, terminalInput, inputFocused, terminalMessages>>
chat == <<messageHistory, queries, statusFetches>>
display == <<imageLoads, loadsIssued, currentImageTexture, imageMaterial, disposedTextures,
             texturesCreated>>
gallery == <<lastCheckedImageTime, now, polls, display>>
vars == <<avatar, pointer, session, flags, dom, chat, gallery>>

(* ------------------------------------------------------------------ *)
(* Arithmetic helpers                                                 *)
(* ------------------------------------------------------------------ *)
Abs(n) == IF n < 0 THEN -n ELSE n
Sign(n) == IF n < 0 THEN -1 ELSE IF n > 0 THEN 1 ELSE 0
Min(a, b) == IF a < b THEN a ELSE b
Max(a, b) == IF a > b THEN a ELSE b
Sq(n) == n * n

(* player.position.distanceTo(p) < INTERACTION_DISTANCE, on squares *)
WithinInteraction(pos, p) ==
    Sq(pos.x - p.x) + Sq(pos.y - p.y) + Sq(pos.z - p.z) < Sq(INTERACTION_DISTANCE)

(* isInHouseX && isInHouseZ *)
IsInHouse(x, z) ==
    /\ x >= -HalfInnerSize /\ x <= HalfInnerSize
    /\ z >= -HalfInnerSize /\ z <= HalfInnerSize

(* some tree is closer than 1.2 m in the horizontal plane *)
HitsTree(x, z, trs) ==
    \E t \in trs : Sq(x - t.x) + Sq(z - t.z) < Sq(TreeRadius)

(* createTrees: a generated position is kept when it is away from the *)
(* path and away from the house                                       *)
ValidTreePosition(t) ==
    /\ Abs(t.x) <= 800 /\ Abs(t.z) <= 800
    /\ (Abs(t.x) > 60 \/ t.z < -200 \/ t.z > 500)
    /\ (Sq(t.x) + Sq(t.z) > Sq(500) \/ t.z > 300)

(* ------------------------------------------------------------------ *)
(* Avatar locomotion (updatePlayerMovement)                           *)
(* ------------------------------------------------------------------ *)
MovementKeys == {"w", "a", "s", "d"}

(* forward = (0,0,-1) and right = (1,0,0) rotated about Y by q quarter turns *)
Forward(q) ==
    CASE q = 0 -> [x |-> 0, z |-> -1]
      [] q = 1 -> [x |-> -1, z |-> 0]
      [] q = 2 -> [x |-> 0, z |-> 1]
      [] OTHER -> [x |-> 1, z |-> 0]

Right(q) ==
    CASE q = 0 -> [x |-> 1, z |-> 0]
      [] q = 1 -> [x |-> 0, z |-> -1]
      [] q = 2 -> [x |-> -1, z |-> 0]
      [] OTHER -> [x |-> 0, z |-> 1]

KeyFactor(keys, plus, minus) ==
    (IF plus \in keys THEN 1 ELSE 0) - (IF minus \in keys THEN 1 ELSE 0)

(* moveDirection before normalisation: the sum of the pressed keys' axes *)
MoveDirection(keys, q) ==
    LET f == KeyFactor(keys, "w", "s")
        r == KeyFactor(keys, "d", "a")
    IN  [x |-> f * Forward(q).x + r * Right(q).x,
         z |-> f * Forward(q).z + r * Right(q).z]

(* moveDirection.normalize() scaled by moveSpeed; a diagonal direction has *)
(* components moveSpeed / sqrt(2), rounded down to the unit of length      *)
ScaledMove(dir, moveSpeed) ==
    LET c == IF dir.x # 0 /\ dir.z # 0 THEN (moveSpeed * 707) \div 1000 ELSE moveSpeed
    IN  [x |-> dir.x * c, z |-> dir.z * c]

Clamp(v) == Max(-HalfWorldSize, Min(HalfWorldSize, v))

(* Collision with the walls from inside the house (lines 922-937) *)
InsideCollision(x, z) ==
    LET x1 == IF Abs(x) > HalfInnerSize - WallOffset
              THEN Sign(x) * (HalfInnerSize - WallOffset) ELSE x
        z1 == IF z > HalfInnerSize - WallOffset THEN HalfInnerSize - WallOffset ELSE z
        z2 == IF z1 < -HalfInnerSize + WallOffset /\ (x1 < -HalfDoorWidth \/ x1 > HalfDoorWidth)
              THEN -HalfInnerSize + WallOffset ELSE z1
    IN  [x |-> x1, z |-> z2]

(* Collision with the house from outside (lines 938-970); also sets or    *)
(* clears playerNearDoor                                                  *)
OutsideCollision(x, z, nearDoor) ==
    LET nearHouseX == x >= -HalfHouseSize - WallOffset /\ x <= HalfHouseSize + WallOffset
        nearHouseZ == z >= -HalfHouseSize - WallOffset /\ z <= HalfHouseSize + WallOffset
    IN  IF nearHouseX /\ nearHouseZ
        THEN IF z < -HalfHouseSize + WallOffset /\ z > -HalfHouseSize - WallOffset
             THEN IF x >= -HalfDoorWidth /\ x <= HalfDoorWidth
                  THEN [x |-> x, z |-> z, nearDoor |-> TRUE]
                  ELSE [x |-> x, z |-> -HalfHouseSize - WallOffset, nearDoor |-> nearDoor]
             ELSE IF z > HalfHouseSize - WallOffset /\ z < HalfHouseSize + WallOffset
             THEN [x |-> x, z |-> HalfHouseSize + WallOffset, nearDoor |-> nearDoor]
             ELSE IF x < -HalfHouseSize + WallOffset /\ x > -HalfHouseSize - WallOffset
             THEN [x |-> -HalfHouseSize - WallOffset, z |-> z, nearDoor |-> nearDoor]
             ELSE IF x > HalfHouseSize - WallOffset /\ x < HalfHouseSize + WallOffset
             THEN [x |-> HalfHouseSize + WallOffset, z |-> z, nearDoor |-> nearDoor]
             ELSE [x |-> x, z |-> z, nearDoor |-> nearDoor]
        ELSE [x |-> x, z |-> z, nearDoor |-> FALSE]

MovePlayerThroughTrees(pos, nearDoor, d, trs) ==
    LET cx == Clamp(pos.x + d.x)
        cz == Clamp(pos.z + d.z)
        isInHouse == IsInHouse(cx, cz)
        y1 == IF isInHouse THEN PLAYER_HEIGHT + IndoorLift ELSE PLAYER_HEIGHT
    IN  IF isInHouse
        THEN LET c == InsideCollision(cx, cz)
             IN  [pos |-> [x |-> c.x, y |-> y1, z |-> c.z], nearDoor |-> nearDoor]
        ELSE LET c == OutsideCollision(cx, cz, nearDoor)
             IN  [pos |-> [x |-> c.x, y |-> y1, z |-> c.z], nearDoor |-> c.nearDoor]

MovePlayerSlidingAlongTrees(pos, nearDoor, d, trs) ==
    LET cx == Clamp(pos.x + d.x)
        cz == Clamp(pos.z + d.z)
        isInHouse == IsInHouse(cx, cz)
        y1 == IF isInHouse THEN PLAYER_HEIGHT + IndoorLift ELSE PLAYER_HEIGHT
    IN  IF isInHouse
        THEN LET c == InsideCollision(cx, cz)
             IN  [pos |-> [x |-> c.x, y |-> y1, z |-> c.z], nearDoor |-> nearDoor]
        ELSE LET c == OutsideCollision(cx, cz, nearDoor)
             IN  IF HitsTree(c.x, c.z, trs)
                 THEN [pos |-> [x |-> c.x, y |-> y1, z |-> pos.z], nearDoor |-> c.nearDoor]
                 ELSE [pos |-> [x |-> c.x, y |-> y1, z |-> c.z], nearDoor |-> c.nearDoor]

(* The body of `if (moveDirection.lengthSq() > 0)`: the new position and  *)
(* door flag after a move by d from pos (lines 896-998)                   *)
MovePlayer(pos, nearDoor, d, trs) ==
    LET cx == Clamp(pos.x + d.x)
        cz == Clamp(pos.z + d.z)
        isInHouse == IsInHouse(cx, cz)
        y1 == IF isInHouse THEN PLAYER_HEIGHT + IndoorLift ELSE PLAYER_HEIGHT
    IN  IF isInHouse
        THEN LET c == InsideCollision(cx, cz)
             IN  [pos |-> [x |-> c.x, y |-> y1, z |-> c.z], nearDoor |-> nearDoor]
        ELSE LET c == OutsideCollision(cx, cz, nearDoor)
             IN  IF HitsTree(c.x, c.z, trs)
                 THEN [pos |-> [x |-> pos.x, y |-> y1, z |-> pos.z], nearDoor |-> c.nearDoor]
                 ELSE [pos |-> [x |-> c.x, y |-> y1, z |-> c.z], nearDoor |-> c.nearDoor]

(* updateInstructions: the prompt text chosen from the flags *)
InstructionText(open, locked, nearComputer, nearTV, nearDoor) ==
    IF open THEN "Type your command and press Enter to interact"
    ELSE IF ~locked THEN "Click on the game to enable controls | WASD to move | ESC to release mouse"
    ELSE IF nearComputer THEN "Press Enter to access MCP Terminal"
    ELSE IF nearTV THEN "Press Enter to use TV Remote"
    ELSE IF nearDoor THEN "Press Enter to enter/exit the house"
    ELSE "WASD to move | Explore the environment"

MovementFrozenIgnoringTerminal == ~mouseLocked

(* line 876: `if (isTerminalOpen || !mouseLocked) return;` *)
MovementFrozen == isTerminalOpen \/ ~mouseLocked

(* updatePlayerMovement(deltaTime), called by animate() on every frame;  *)
(* moveSpeed = PLAYER_MOVE_SPEED * deltaTime in units of length          *)
updatePlayerMovement(moveSpeed) ==
    IF MovementFrozen
    THEN UNCHANGED <<player, flags, instructions>>
    ELSE LET dir == MoveDirection(keysPressed, yaw)
             moved == IF dir.x # 0 \/ dir.z # 0
                      THEN MovePlayer(player, playerNearDoor, ScaledMove(dir, moveSpeed), trees)
                      ELSE [pos |-> player, nearDoor |-> playerNearDoor]
             nearC == WithinInteraction(moved.pos, ComputerPosition)
             nearT == WithinInteraction(moved.pos, TvPosition)
         IN  /\ player' = moved.pos
             /\ playerNearDoor' = moved.nearDoor
             /\ playerNearComputer' = nearC
             /\ playerNearTV' = nearT
             /\ instructions' = InstructionText(isTerminalOpen, mouseLocked, nearC, nearT, moved.nearDoor)

(* the part of the world the avatar is steered through in a specification *)
InArea(pos, area) ==
    /\ pos.x >= area.xmin /\ pos.x <= area.xmax
    /\ pos.z >= area.zmin /\ pos.z <= area.zmax

(* one call of animate(): a frame with moveSpeed drawn from speeds *)
Frame(speeds, area) ==
    \E moveSpeed \in speeds :
        /\ updatePlayerMovement(moveSpeed)
        /\ InArea(player', area)
        /\ UNCHANGED <<yaw, world, keysPressed, pointer, session, terminalStatus,
                       terminalInput, inputFocused, terminalMessages, chat, gallery>>

(* ------------------------------------------------------------------ *)
(* Log and history helpers                                            *)
(* ------------------------------------------------------------------ *)
Line(sender, text) == [sender |-> sender, text |-> text]

(* addMessageToLog(sender, text) applied to the list of log lines *)
addMessageToLog(log, sender, text) == Append(log, Line(sender, text))

Processing == "Processing..."

(* thinkingMessage.textContent.startsWith("AI: Processing...") for one log *)
(* line; the texts of the model that begin with "Processing..." are listed *)
IsThinkingLine(l) == l.sender = "AI" /\ l.text \in {Processing, "Processing... done"}

(* lines 704-707: drop the last log line when it reads "AI: Processing..." *)
RemoveThinkingMessage(log) ==
    IF Len(log) > 0 /\ IsThinkingLine(log[Len(log)])
    THEN SubSeq(log, 1, Len(log) - 1)
    ELSE log

(* queryText.trim() for the input texts of the model *)
Trim(t) == IF t \in {" ", "   "} THEN "" ELSE t

UserTurn(text) == [role |-> "user", content |-> text, earlier |-> FALSE]

AssistantTurnAsUser(text, earlier) == [role |-> "user", content |-> text, earlier |-> earlier]

AssistantTurn(text, earlier) ==
    [role |-> "assistant", content |-> <<[type |-> "text", text |-> text]>>,
     earlier |-> earlier]

(* messageHistory.slice(-10) when longer than 10 (lines 684-686) *)
TruncateHistory(h) ==
    IF Len(h) > HistoryCap THEN SubSeq(h, Len(h) - HistoryCap + 1, Len(h)) ELSE h

(* messageHistory.slice(0, -1) *)
AllButLast(h) == IF Len(h) = 0 THEN h ELSE SubSeq(h, 1, Len(h) - 1)

RemoveAt(seq, i) == SubSeq(seq, 1, i - 1) \o SubSeq(seq, i + 1, Len(seq))

SetPc(seq, i, pc) == [seq EXCEPT ![i].pc = pc]

(* ------------------------------------------------------------------ *)
(* Image poller: checkForImages / requestNewImage                     *)
(* ------------------------------------------------------------------ *)
MinPollInterval == 10000

checkForImagesNotRecording(last, t, inFlight) ==
    IF t - last < MinPollInterval
    THEN [last |-> last, polls |-> inFlight]
    ELSE [last |-> last, polls |-> Append(inFlight, "primary")]

(* checkForImages(): the state of the poller after the call *)
checkForImages(last, t, inFlight) ==
    IF t - last < MinPollInterval
    THEN [last |-> last, polls |-> inFlight]
    ELSE [last |-> t, polls |-> Append(inFlight, "primary")]

requestNewImageUnforced(t, inFlight) == checkForImages(lastCheckedImageTime, t, inFlight)

(* requestNewImage(): lastCheckedImageTime = 0; checkForImages();        *)
(* the log note is written only when the terminal is open                *)
requestNewImage(t, inFlight) == checkForImages(0, t, inFlight)

(* ------------------------------------------------------------------ *)
(* Terminal session: openTerminalUi / closeTerminalUi                 *)
(* ------------------------------------------------------------------ *)
(* openTerminalUi() when the terminal is closed; status is the text   *)
(* the caller leaves in the status line after the call                *)
openTerminalUi(kind, status) ==
    /\ isTerminalOpen' = TRUE
    /\ interactionType' = kind
    /\ terminalMessages' = <<>>
    /\ messageHistory' = <<>>
    /\ statusFetches' = Append(statusFetches, "fetch")
    /\ terminalStatus' = status
    /\ terminalInput' = ""
    /\ inputFocused' = TRUE
    /\ lockRequest' = IF pointerLock THEN "unlock" ELSE lockRequest
    /\ pointerLock' = pointerLock
    /\ mouseLocked' = FALSE
    /\ queries' = [i \in 1..Len(queries) |->
                       [queries[i] EXCEPT !.earlier = TRUE, !.solo = FALSE, !.before = <<>>]]

closeTerminalUiKeepingType ==
    /\ isTerminalOpen' = FALSE
    /\ inputFocused' = FALSE
    /\ IF interactionType = "tv"
       THEN LET r == requestNewImage(now, polls)
            IN  lastCheckedImageTime' = r.last /\ polls' = r.polls
       ELSE UNCHANGED <<lastCheckedImageTime, polls>>
    /\ interactionType' = interactionType

(* closeTerminalUi() when the terminal is open *)
closeTerminalUi ==
    /\ isTerminalOpen' = FALSE
    /\ inputFocused' = FALSE
    /\ IF interactionType = "tv"
       THEN LET r == requestNewImage(now, polls)
            IN  lastCheckedImageTime' = r.last /\ polls' = r.polls
       ELSE UNCHANGED <<lastCheckedImageTime, polls>>
    /\ interactionType' = ""

(* The door branch of handleKeyDown (lines 795-813) *)
DoorTeleport(pos) ==
    IF IsInHouse(pos.x, pos.z)
    THEN [pos EXCEPT !.z = DoorOutsideZ]
    ELSE [pos EXCEPT !.z = DoorInsideZ]

(* ------------------------------------------------------------------ *)
(* Query client: sendQuery                                            *)
(* ------------------------------------------------------------------ *)
QueryRequestBodyWithUserTurn(queryText, history) ==
    [query |-> queryText, history |-> history]

(* the body of the POST /api/query request (lines 697-700), built from *)
(* the history as it is after the user turn was pushed and the cap     *)
(* applied                                                             *)
QueryRequestBody(queryText, history) ==
    [query |-> queryText, history |-> AllButLast(history)]

(* sendQuery(queryText) up to its first await (lines 675-701) *)
sendQuery(queryText) ==
    IF Trim(queryText) = ""
    THEN UNCHANGED <<terminalMessages, terminalInput, messageHistory, queries>>
    ELSE LET pushed == TruncateHistory(Append(messageHistory, UserTurn(queryText)))
         IN  /\ terminalMessages' =
                    addMessageToLog(addMessageToLog(terminalMessages, "You", queryText),
                                    "AI", Processing)
             /\ terminalInput' = ""
             /\ messageHistory' = pushed
             /\ queries' = Append(
                    [i \in 1..Len(queries) |-> [queries[i] EXCEPT !.solo = FALSE]],
                    [text |-> queryText, pc |-> "fetch", before |-> messageHistory,
                     earlier |-> FALSE, solo |-> queries = <<>>,
                     body |-> QueryRequestBody(queryText, pushed)])

(* ------------------------------------------------------------------ *)
(* Input handlers                                                     *)
(* ------------------------------------------------------------------ *)
(* handleKeyDown for a movement key: keysPressed[key] = true *)
KeyDown(keys) ==
    \E k \in keys :
        /\ k \notin keysPressed
        /\ keysPressed' = keysPressed \cup {k}
        /\ UNCHANGED <<player, yaw, world, pointer, session, flags, dom, chat, gallery>>

(* handleKeyUp *)
KeyUp ==
    \E k \in keysPressed :
        /\ keysPressed' = keysPressed \ {k}
        /\ UNCHANGED <<player, yaw, world, pointer, session, flags, dom, chat, gallery>>

CommitCandidateDoorFirst ==
    IF playerNearDoor THEN "door"
    ELSE IF playerNearComputer THEN "computer"
    ELSE IF playerNearTV THEN "tv"
    ELSE "none"

(* lines 788-795: the if / else-if chain over the proximity flags *)
CommitCandidate ==
    IF playerNearComputer THEN "computer"
    ELSE IF playerNearTV THEN "tv"
    ELSE IF playerNearDoor THEN "door"
    ELSE "none"

handleEnterIgnoringOpenSession ==
    IF isTerminalOpen /\ inputFocused /\ Trim(terminalInput) # ""
    THEN /\ sendQuery(terminalInput)
         /\ UNCHANGED <<avatar, pointer, session, flags, instructions, terminalStatus,
                        inputFocused, statusFetches, gallery>>
    ELSE CASE CommitCandidate = "computer" ->
                /\ openTerminalUi("computer", "Connecting to MCP Backend...")
                /\ UNCHANGED <<avatar, flags, instructions, gallery>>
           [] CommitCandidate = "tv" ->
                /\ openTerminalUi("tv", "TV REMOTE CONTROL")
                /\ UNCHANGED <<avatar, flags, instructions, gallery>>
           [] CommitCandidate = "door" ->
                /\ player' = DoorTeleport(player)
                /\ UNCHANGED <<yaw, world, keysPressed, pointer, session, flags, dom,
                               chat, gallery>>
           [] OTHER -> UNCHANGED vars

(* handleKeyDown with event.key === 'Enter' (lines 782-814) *)
handleEnter ==
    IF isTerminalOpen /\ inputFocused
    THEN /\ sendQuery(terminalInput)
         /\ UNCHANGED <<avatar, pointer, session, flags, instructions, terminalStatus,
                        inputFocused, statusFetches, gallery>>
    ELSE IF ~isTerminalOpen
    THEN CASE CommitCandidate = "computer" ->
                /\ openTerminalUi("computer", "Connecting to MCP Backend...")
                /\ UNCHANGED <<avatar, flags, instructions, gallery>>
           [] CommitCandidate = "tv" ->
                /\ openTerminalUi("tv", "TV REMOTE CONTROL")
                /\ UNCHANGED <<avatar, flags, instructions, gallery>>
           [] CommitCandidate = "door" ->
                /\ player' = DoorTeleport(player)
                /\ UNCHANGED <<yaw, world, keysPressed, pointer, session, flags, dom,
                               chat, gallery>>
           [] OTHER -> UNCHANGED vars
    ELSE UNCHANGED vars

KeyEnter(maxInFlight, maxLog) ==
    /\ (isTerminalOpen /\ inputFocused /\ Trim(terminalInput) # "")
           => (Len(queries) < maxInFlight /\ Len(terminalMessages) + 2 <= maxLog)
    /\ (~isTerminalOpen /\ (playerNearComputer \/ playerNearTV))
           => Len(statusFetches) < MaxStatus
    /\ handleEnter

(* handleKeyDown with event.key === 'Escape' (lines 815-822) *)
handleEscape ==
    IF isTerminalOpen
    THEN /\ closeTerminalUi
         /\ UNCHANGED <<avatar, pointer, flags, instructions, terminalStatus, terminalInput,
                        terminalMessages, chat, now, display>>
    ELSE IF pointerLock
    THEN /\ lockRequest' = "unlock"
         /\ mouseLocked' = FALSE
         /\ UNCHANGED <<pointerLock, avatar, session, flags, dom, chat, gallery>>
    ELSE UNCHANGED vars

KeyEscape ==
    /\ (isTerminalOpen /\ interactionType = "tv") => Len(polls) < MaxPolls
    /\ handleEscape

(* handleMouseDown: a left click on the canvas requests the pointer lock; *)
(* the browser grants it later and announces it by pointerlockchange      *)
MouseDown ==
    /\ ~isTerminalOpen /\ ~mouseLocked
    /\ lockRequest' = IF pointerLock THEN lockRequest ELSE "lock"
    /\ UNCHANGED <<mouseLocked, pointerLock, avatar, session, flags, dom, chat, gallery>>

(* handleMouseMove: movementX turns the player by quarter turns *)
MouseMove(turns) ==
    \E t \in turns :
        /\ pointerLock
        /\ mouseLocked' = TRUE
        /\ yaw' = (yaw - t) % 4
        /\ UNCHANGED <<player, world, keysPressed, pointerLock, lockRequest, session, flags,
                       dom, chat, gallery>>

(* The browser carries out the pending lock or unlock and dispatches *)
(* pointerlockchange: handlePointerLockChange                        *)
PointerLockChange ==
    /\ lockRequest # ""
    /\ pointerLock' = (lockRequest = "lock")
    /\ lockRequest' = ""
    /\ mouseLocked' = pointerLock'
    /\ instructions' = InstructionText(isTerminalOpen, pointerLock', playerNearComputer,
                                       playerNearTV, playerNearDoor)
    /\ UNCHANGED <<avatar, session, flags, terminalStatus, terminalInput,
                   inputFocused, terminalMessages, chat, gallery>>

(* The user edits the text of the focused input field *)
TypeText(texts) ==
    \E t \in texts :
        /\ isTerminalOpen /\ inputFocused
        /\ t # terminalInput
        /\ terminalInput' = t
        /\ UNCHANGED <<avatar, pointer, session, flags, instructions, terminalStatus,
                       inputFocused, terminalMessages, chat, gallery>>

(* The user clicks outside or inside the input field while the terminal is open *)
ToggleFocus ==
    /\ isTerminalOpen
    /\ inputFocused' = ~inputFocused
    /\ UNCHANGED <<avatar, pointer, session, flags, instructions, terminalStatus,
                   terminalInput, terminalMessages, chat, gallery>>

(* ------------------------------------------------------------------ *)
(* Completions of the query request (sendQuery after its awaits)      *)
(* ------------------------------------------------------------------ *)
(* the catch block of sendQuery (lines 723-735): an error line is logged *)
(* and the history is left as it is                                      *)
QueryCatch(i, message) ==
    /\ terminalMessages' = addMessageToLog(terminalMessages, "Error", message)
    /\ queries' = RemoveAt(queries, i)
    /\ UNCHANGED messageHistory

(* `await fetch(...)` rejects: control goes straight to the catch block *)
QueryFetchRejects ==
    \E i \in 1..Len(queries) :
        /\ queries[i].pc = "fetch"
        /\ QueryCatch(i, "Failed to fetch")
        /\ UNCHANGED <<avatar, pointer, session, flags, instructions, terminalStatus,
                       terminalInput, inputFocused, statusFetches, gallery>>

(* `await fetch(...)` resolves (lines 703-713): the last log line is removed *)
(* when it is the thinking message, then the body is read                    *)
QueryFetchResolves ==
    \E i \in 1..Len(queries), ok \in BOOLEAN :
        /\ queries[i].pc = "fetch"
        /\ terminalMessages' = RemoveThinkingMessage(terminalMessages)
        /\ queries' = SetPc(queries, i, IF ok THEN "json" ELSE "errorJson")
        /\ UNCHANGED <<avatar, pointer, session, flags, instructions, terminalStatus,
                       terminalInput, inputFocused, messageHistory, statusFetches, gallery>>

(* `await response.json()` of a successful response resolves (lines 715-720) *)
QuerySucceeds(responses) ==
    \E i \in 1..Len(queries), r \in responses :
        /\ queries[i].pc = "json"
        /\ terminalMessages' = addMessageToLog(terminalMessages, "AI", r)
        /\ messageHistory' = Append(messageHistory, AssistantTurn(r, queries[i].earlier))
        /\ queries' = RemoveAt(queries, i)
        /\ UNCHANGED <<avatar, pointer, session, flags, instructions, terminalStatus,
                       terminalInput, inputFocused, statusFetches, gallery>>

(* the body of a successful response is not JSON: response.json() rejects *)
QueryBodyRejects ==
    \E i \in 1..Len(queries) :
        /\ queries[i].pc = "json"
        /\ QueryCatch(i, "Unexpected token")
        /\ UNCHANGED <<avatar, pointer, session, flags, instructions, terminalStatus,
                       terminalInput, inputFocused, statusFetches, gallery>>

(* a non-success response: its body is read, then the error is thrown *)
QueryHttpError ==
    \E i \in 1..Len(queries) :
        /\ queries[i].pc = "errorJson"
        /\ QueryCatch(i, "HTTP error! status: 500")
        /\ UNCHANGED <<avatar, pointer, session, flags, instructions, terminalStatus,
                       terminalInput, inputFocused, statusFetches, gallery>>

(* ------------------------------------------------------------------ *)
(* Completions of fetchStatus                                         *)
(* ------------------------------------------------------------------ *)
StatusSettlesClosingSession ==
    \E i \in 1..Len(statusFetches) :
        /\ terminalStatus' = "MCP TERMINAL"
        /\ statusFetches' = RemoveAt(statusFetches, i)
        /\ isTerminalOpen' = FALSE
        /\ UNCHANGED <<avatar, pointer, interactionType, flags, instructions, terminalInput,
                       inputFocused, terminalMessages, messageHistory, queries, gallery>>

(* fetchStatus ends, after its awaits, through the try block or through   *)
(* the catch block: the status line is set to "MCP TERMINAL" either way  *)
(* (lines 665, 670)                                                       *)
StatusSettles ==
    \E i \in 1..Len(statusFetches) :
        /\ terminalStatus' = "MCP TERMINAL"
        /\ statusFetches' = RemoveAt(statusFetches, i)
        /\ UNCHANGED <<avatar, pointer, session, flags, instructions, terminalInput,
                       inputFocused, terminalMessages, messageHistory, queries, gallery>>

(* ------------------------------------------------------------------ *)
(* Image display: loadImageToDisplay                                  *)
(* ------------------------------------------------------------------ *)
(* URLs are sequences of tokens, so that startsWith('http') and         *)
(* startsWith('/') are tests on the first token                         *)
IMAGE_SERVER_URL == <<"http", "://localhost:3002">>

(* lines 1688-1699: an identifier that is not absolute is prefixed with *)
(* the gallery's base address                                           *)
FullImageUrl(imageUrl) ==
    IF Len(imageUrl) > 0 /\ Head(imageUrl) # "http"
    THEN IF Head(imageUrl) = "/"
         THEN IMAGE_SERVER_URL \o imageUrl
         ELSE IMAGE_SERVER_URL \o <<"/">> \o imageUrl
    ELSE imageUrl

(* loadImageToDisplay(imageUrl) up to the start of the texture load *)
loadImageToDisplay(imageUrl) ==
    /\ disposedTextures' = IF currentImageTexture # 0
                           THEN disposedTextures \cup {currentImageTexture}
                           ELSE disposedTextures
    /\ imageLoads' = Append(imageLoads, [url |-> FullImageUrl(imageUrl),
                                         seq |-> loadsIssued + 1])
    /\ loadsIssued' = loadsIssued + 1
    /\ UNCHANGED <<currentImageTexture, imageMaterial, texturesCreated>>

(* the onLoad callback of textureLoader.load (lines 1709-1717) *)
ImageLoadSucceeds ==
    \E i \in 1..Len(imageLoads) :
        /\ Len(texturesCreated) < MaxTextures
        /\ texturesCreated' = Append(texturesCreated, imageLoads[i].url)
        /\ currentImageTexture' = Len(texturesCreated) + 1
        /\ imageMaterial' = [kind |-> "map", map |-> Len(texturesCreated) + 1,
                             load |-> imageLoads[i].seq]
        /\ imageLoads' = RemoveAt(imageLoads, i)
        /\ UNCHANGED <<avatar, pointer, session, flags, dom, chat, lastCheckedImageTime,
                       now, polls, loadsIssued, disposedTextures>>

(* the onError callback of textureLoader.load (lines 1722-1726) *)
ImageLoadFails ==
    \E i \in 1..Len(imageLoads) :
        /\ imageMaterial' = [kind |-> "color", map |-> 0, load |-> imageLoads[i].seq]
        /\ imageLoads' = RemoveAt(imageLoads, i)
        /\ UNCHANGED <<avatar, pointer, session, flags, dom, chat, lastCheckedImageTime,
                       now, polls, loadsIssued, currentImageTexture, disposedTextures,
                       texturesCreated>>

(* ------------------------------------------------------------------ *)
(* Completions of the gallery requests of checkForImages              *)
(* ------------------------------------------------------------------ *)
(* a log note of the poller, written only while the terminal is open *)
PollNote(text) ==
    terminalMessages' = IF isTerminalOpen
                        THEN addMessageToLog(terminalMessages, "System", text)
                        ELSE terminalMessages

(* /latest-image answers with an imageUrl or a latestImage field (lines 1644-1649) *)
PollPrimaryImage(urls) ==
    \E i \in 1..Len(polls), u \in urls :
        /\ polls[i] = "primary"
        /\ loadsIssued < MaxLoads
        /\ loadImageToDisplay(u)
        /\ polls' = RemoveAt(polls, i)
        /\ UNCHANGED <<avatar, pointer, session, flags, dom, chat, lastCheckedImageTime, now>>

(* /latest-image answers with neither field (lines 1650-1657) *)
PollPrimaryEmpty ==
    \E i \in 1..Len(polls) :
        /\ polls[i] = "primary"
        /\ PollNote("No images available in the gallery.")
        /\ polls' = RemoveAt(polls, i)
        /\ UNCHANGED <<avatar, pointer, session, flags, instructions, terminalStatus,
                       terminalInput, inputFocused, chat, lastCheckedImageTime, now, display>>

PollPrimaryFailsWithoutFallback ==
    \E i \in 1..Len(polls) :
        /\ polls[i] = "primary"
        /\ polls' = RemoveAt(polls, i)
        /\ UNCHANGED <<avatar, pointer, session, flags, dom, chat, lastCheckedImageTime,
                       now, display>>

(* /latest-image fails (rejected fetch, non-success status or a body that is *)
(* not JSON): the catch handler requests the legacy endpoint (lines 1659-1663) *)
PollPrimaryFails ==
    \E i \in 1..Len(polls) :
        /\ polls[i] = "primary"
        /\ polls' = [polls EXCEPT ![i] = "legacy"]
        /\ UNCHANGED <<avatar, pointer, session, flags, dom, chat, lastCheckedImageTime,
                       now, display>>

(* /api/latest-image answers with a latestImage field (lines 1665-1669) *)
PollLegacyImage(urls) ==
    \E i \in 1..Len(polls), u \in urls :
        /\ polls[i] = "legacy"
        /\ loadsIssued < MaxLoads
        /\ loadImageToDisplay(u)
        /\ polls' = RemoveAt(polls, i)
        /\ UNCHANGED <<avatar, pointer, session, flags, dom, chat, lastCheckedImageTime, now>>

(* /api/latest-image answers without a latestImage field: nothing is done *)
PollLegacyEmpty ==
    \E i \in 1..Len(polls) :
        /\ polls[i] = "legacy"
        /\ polls' = RemoveAt(polls, i)
        /\ UNCHANGED <<avatar, pointer, session, flags, dom, chat, lastCheckedImageTime,
                       now, display>>

(* /api/latest-image fails as well (lines 1671-1678) *)
PollLegacyFails ==
    \E i \in 1..Len(polls) :
        /\ polls[i] = "legacy"
        /\ PollNote("Unable to connect to the image gallery.")
        /\ polls' = RemoveAt(polls, i)
        /\ UNCHANGED <<avatar, pointer, session, flags, instructions, terminalStatus,
                       terminalInput, inputFocused, chat, lastCheckedImageTime, now, display>>

(* ------------------------------------------------------------------ *)
(* Image-generation server: the generate_image tool call              *)
(* ------------------------------------------------------------------ *)
(* the state of the game client, which the tool call does not touch *)
client == <<player, yaw, trees, keysPressed, pointer, session, flags, dom, chat, gallery>>

(* an image of the API response carries base64 data, a URL, or neither *)
ImageKinds == {"b64", "url", "none"}

(* `${timestamp}_${filePrompt}_${index+1}.png` for the loop index (line 397) *)
Filename(index) == <<"timestamp", "filePrompt", index + 1>>

(* path.join(imageDir, filename) *)
ImagePath(filename) == <<"imageDir">> \o filename

(* saveBase64Image / saveImageFromUrl: the path of the written file, or *)
(* the empty string when writing failed (lines 161-198, 202-249)        *)
SaveResult(filename, ok) == IF ok THEN ImagePath(filename) ELSE <<>>

NoToolCall ==
    [imageData |-> <<>>, index |-> 0, savedImagePaths |-> <<>>, files |-> {},
     responseText |-> <<>>, pc |-> "idle"]

(* the handler at the start of the save loop, with the images of the response *)
NewToolCall(imageData) == [NoToolCall EXCEPT !.imageData = imageData, !.pc = "loop"]

(* one iteration of the save loop (lines 395-458): the image at index is *)
(* saved under its own filename and the path is pushed when the save     *)
(* returned one                                                          *)
SaveImage ==
    \E ok \in BOOLEAN :
        LET index == toolCall.index
            img == toolCall.imageData[index + 1]
            imagePath == IF img = "none" THEN <<>> ELSE SaveResult(Filename(index), ok)
        IN  /\ toolCall.pc = "loop"
            /\ img = "none" => ok
            /\ toolCall' =
                   [toolCall EXCEPT
                        !.index = index + 1,
                        !.savedImagePaths = IF imagePath # <<>> THEN Append(@, imagePath) ELSE @,
                        !.files = IF imagePath # <<>>
                                  THEN @ \cup {[path |-> imagePath, image |-> index + 1]}
                                  ELSE @,
                        !.pc = IF index + 1 < Len(toolCall.imageData) THEN "loop" ELSE "respond"]
            /\ UNCHANGED client

SavedTo == "Saved to"
NotSaved == "WARNING: Image could not be saved locally"

(* the text for image i of the response (lines 468-482), i counted from 0 *)
ReportLine(imageData, savedImagePaths, i) ==
    LET savedPath == IF i < Len(savedImagePaths) /\ savedImagePaths[i + 1] # <<>>
                     THEN [label |-> SavedTo, path |-> savedImagePaths[i + 1]]
                     ELSE [label |-> NotSaved, path |-> <<>>]
    IN  IF imageData[i + 1] = "b64"
        THEN [image |-> i + 1, text |-> "Successfully generated", saved |-> savedPath,
              url |-> FALSE]
        ELSE IF imageData[i + 1] = "url"
        THEN [image |-> i + 1, text |-> "Successfully generated", saved |-> savedPath,
              url |-> TRUE]
        ELSE [image |-> i + 1, text |-> "Failed to generate image.",
              saved |-> [label |-> "", path |-> <<>>], url |-> FALSE]

(* the response text is formatted after the loop (lines 466-483) *)
FormatResponse ==
    /\ toolCall.pc = "respond"
    /\ toolCall' =
           [toolCall EXCEPT
                !.responseText = [i \in 1..Len(toolCall.imageData) |->
                                      ReportLine(toolCall.imageData,
                                                 toolCall.savedImagePaths, i - 1)],
                !.pc = "done"]
    /\ UNCHANGED client

(* ------------------------------------------------------------------ *)
(* Initial state: the module's top-level state after init()           *)
(* ------------------------------------------------------------------ *)
StartTimes == {1000000}

(* candidate sites of the randomly placed trees *)
TreeSites == {[x |-> 0, z |-> -560], [x |-> 0, z |-> 0]}
TreeLayouts == {T \in SUBSET TreeSites : T # {} /\ \A t \in T : ValidTreePosition(t)}

ClientInit ==
    /\ player = SpawnPosition
    /\ yaw = 0
    /\ trees \in TreeLayouts
    /\ keysPressed = {}
    /\ mouseLocked = FALSE
    /\ pointerLock = FALSE
    /\ lockRequest = ""
    /\ isTerminalOpen = FALSE
    /\ interactionType = ""
    /\ playerNearTV = FALSE
    /\ playerNearComputer = FALSE
    /\ playerNearDoor = FALSE
    /\ instructions = "Click to enable controls | WASD to move | Mouse to look around"
    /\ terminalStatus = "MCP TERMINAL"
    /\ terminalInput = ""
    /\ inputFocused = FALSE
    /\ terminalMessages = <<>>
    /\ messageHistory = <<>>
    /\ queries = <<>>
    /\ statusFetches = <<>>
    /\ now \in StartTimes
    /\ LET r == checkForImages(0, now, <<>>)
       IN  lastCheckedImageTime = r.last /\ polls = r.polls
    /\ imageLoads = <<>>
    /\ loadsIssued = 0
    /\ currentImageTexture = 0
    /\ imageMaterial = [kind |-> "color", map |-> 0, load |-> 0]
    /\ disposedTextures = {}
    /\ texturesCreated = <<>>

(* the game client after init(), the image-generation server idle *)
Init == ClientInit /\ toolCall = NoToolCall

(* the images of one API response: one to MaxImages images of any kind *)
ImageDataInputs == UNION {[1..n -> ImageKinds] : n \in 1..MaxImages}

(* the image-generation server at the start of the save loop of a call *)
InitTool == ClientInit /\ toolCall \in {NewToolCall(d) : d \in ImageDataInputs}

(* ------------------------------------------------------------------ *)
(* Specifications                                                     *)
(* ------------------------------------------------------------------ *)
Speeds == {120}
Turns == {1}
Texts == {"hi", " "}
Responses == {"ok"}
Yard == [xmin |-> -120, xmax |-> 0, zmin |-> -320, zmax |-> 400]
Path == [xmin |-> 0, xmax |-> 0, zmin |-> 40, zmax |-> 400]

(* Avatar, fixtures and session: the avatar is steered through the yard and *)
(* the house; nothing is typed into the terminal                            *)
Next ==
    \/ Frame(Speeds, Yard)
    \/ KeyDown({"w"})
    \/ KeyUp
    \/ KeyEnter(MaxInFlight, MaxLog)
    \/ KeyEscape
    \/ MouseDown
    \/ MouseMove(Turns)
    \/ PointerLockChange
    \/ ToggleFocus
    \/ StatusSettles
    \/ PollPrimaryEmpty
    \/ PollPrimaryFails
    \/ PollLegacyFails

Spec == Init /\ [][Next]_vars

(* Query client: the avatar walks straight ahead to the television *)
NextChat ==
    \/ Frame(Speeds, Path)
    \/ KeyDown({"w"})
    \/ MouseDown
    \/ PointerLockChange
    \/ KeyEnter(MaxInFlight, MaxLog)
    \/ KeyEscape
    \/ TypeText({"hi"})
    \/ QueryFetchRejects
    \/ QueryFetchResolves
    \/ QuerySucceeds(Responses)
    \/ QueryBodyRejects
    \/ QueryHttpError
    \/ StatusSettles
    \/ PollPrimaryEmpty

SpecChat == Init /\ [][NextChat]_vars

(* History cap: one request at a time, no request is rejected *)
NextCap ==
    \/ Frame(Speeds, Path)
    \/ KeyDown({"w"})
    \/ MouseDown
    \/ PointerLockChange
    \/ KeyEnter(CapInFlight, CapLog)
    \/ KeyEscape
    \/ TypeText(Texts)
    \/ QueryFetchResolves
    \/ QuerySucceeds(Responses)
    \/ StatusSettles
    \/ PollPrimaryEmpty

SpecCap == Init /\ [][NextCap]_vars

(* Date.now() advances by one of the given steps *)
Tick(steps, maxTicks) ==
    \E d \in steps, s \in StartTimes :
        /\ now + d <= s + maxTicks * d
        /\ now' = now + d
        /\ UNCHANGED <<avatar, pointer, session, flags, dom, chat, lastCheckedImageTime,
                       polls, display>>

TickSizes == {6000}

(* Image poller: sessions at the television and at the computer while time *)
(* passes and the gallery answers or fails                                 *)
NextPoll ==
    \/ Frame(Speeds, Yard)
    \/ KeyDown({"w"})
    \/ KeyEnter(MaxInFlight, MaxLog)
    \/ KeyEscape
    \/ MouseDown
    \/ MouseMove(Turns)
    \/ PointerLockChange
    \/ StatusSettles
    \/ Tick(TickSizes, MaxTicks)
    \/ PollPrimaryEmpty
    \/ PollPrimaryFails
    \/ PollLegacyFails

SpecPoll == Init /\ [][NextPoll]_vars

(* Image poller with the session left Idle: no commit and no cancel *)
NextIdle ==
    \/ Frame(Speeds, Yard)
    \/ KeyDown({"w"})
    \/ KeyUp
    \/ MouseDown
    \/ MouseMove(Turns)
    \/ PointerLockChange
    \/ Tick(TickSizes, MaxTicks)
    \/ PollPrimaryEmpty
    \/ PollPrimaryFails
    \/ PollLegacyFails

SpecIdle == Init /\ [][NextIdle]_vars

(* Locomotion: short frames and long frames, forward and sideways, through *)
(* the house, the door and up to the tree in front of the house            *)
WalkSpeeds == {120, 12}
WalkKeys == {"w", "d"}
Grounds == [xmin |-> 0, xmax |-> 48, zmin |-> -600, zmax |-> 400]

NextWalk ==
    \/ Frame(WalkSpeeds, Grounds)
    \/ KeyDown(WalkKeys)
    \/ KeyUp
    \/ MouseDown
    \/ PointerLockChange
    \/ KeyEnter(MaxInFlight, MaxLog)

SpecWalk == Init /\ [][NextWalk]_vars

(* identifiers that the gallery answers with: a path with and a path *)
(* without a leading slash                                            *)
Urls == {<<"/", "image/a.png">>, <<"image/b.png">>}

(* Image display: sessions at the television while the gallery answers, *)
(* fails or has nothing, and texture loads succeed or fail              *)
NextImage ==
    \/ Frame(Speeds, Path)
    \/ KeyDown({"w"})
    \/ MouseDown
    \/ PointerLockChange
    \/ KeyEnter(MaxInFlight, MaxLog)
    \/ KeyEscape
    \/ StatusSettles
    \/ PollPrimaryImage(Urls)
    \/ PollPrimaryEmpty
    \/ PollPrimaryFails
    \/ PollLegacyImage(Urls)
    \/ PollLegacyEmpty
    \/ PollLegacyFails
    \/ ImageLoadSucceeds
    \/ ImageLoadFails

SpecImage == Init /\ [][NextImage]_vars

(* Image-generation server: one generate_image call, each save *)
(* succeeding or failing                                        *)
NextTool ==
    \/ SaveImage
    \/ FormatResponse

SpecTool == InitTool /\ [][NextTool]_vars

(* ================================================================== *)
(* Properties                                                         *)
(* ================================================================== *)

(* C1: while the session is Open no step - a frame, a key event, Enter   *)
(* with the door flag set, a completion - changes the avatar position,   *)
(* so the position at cancel is the position at the moment of opening.   *)
PositionFrozenWhileOpen == [][isTerminalOpen => player' = player]_vars

(* C1 witness: a session is open while a movement key is held down, the  *)
(* mouse counts as locked and the door flag is set.                      *)
OpenWithMovementIntent ==
    /\ isTerminalOpen
    /\ "w" \in keysPressed
    /\ mouseLocked
    /\ playerNearDoor

(* C2: the session flags are always one of Idle with kind empty, Open    *)
(* with kind 'computer', Open with kind 'tv'.                            *)
SessionFlagsValid ==
    <<isTerminalOpen, interactionType>> \in
        {<<FALSE, "">>, <<TRUE, "computer">>, <<TRUE, "tv">>}

(* C2 witness: a computer session is open after a TV session was opened  *)
(* and cancelled (its forced poll has been issued and has failed over to *)
(* the legacy endpoint).                                                 *)
ComputerSessionAfterTvSession ==
    /\ isTerminalOpen
    /\ interactionType = "computer"
    /\ Len(polls) > 0
    /\ polls[1] = "legacy"

FixturePrompt(fixture) ==
    CASE fixture = "computer" -> "Press Enter to access MCP Terminal"
      [] fixture = "tv" -> "Press Enter to use TV Remote"
      [] fixture = "door" -> "Press Enter to enter/exit the house"

(* the first flagged fixture in the order Computer > Television > Door *)
TopFixture(nearComputer, nearTV, nearDoor) ==
    IF nearComputer THEN "computer"
    ELSE IF nearTV THEN "tv"
    ELSE IF nearDoor THEN "door"
    ELSE "none"

CommitActivatesTopFixture ==
    (~isTerminalOpen /\ handleEnter) =>
        LET top == TopFixture(playerNearComputer, playerNearTV, playerNearDoor)
        IN  CASE top \in {"computer", "tv"} ->
                    isTerminalOpen' /\ interactionType' = top /\ player' = player
              [] top = "door" ->
                    /\ ~isTerminalOpen'
                    /\ player' = [player EXCEPT !.z = IF IsInHouse(player.x, player.z)
                                                      THEN DoorOutsideZ ELSE DoorInsideZ]
              [] OTHER -> UNCHANGED vars

PromptNamesTopFixture ==
    (~isTerminalOpen /\ instructions \in {FixturePrompt(f) : f \in {"computer", "tv", "door"}})
        => instructions = FixturePrompt(TopFixture(playerNearComputer, playerNearTV,
                                                   playerNearDoor))

(* C3: a commit in Idle activates the first flagged fixture in the order *)
(* Computer > Television > Door, for every combination of flags reached, *)
(* and a fixture prompt on screen names that same fixture.               *)
CommitFollowsPriority ==
    /\ [][CommitActivatesTopFixture]_vars
    /\ []PromptNamesTopFixture

(* C3 witness: a TV session was opened by a commit made while both the   *)
(* TV flag and the door flag were set, under the TV prompt.              *)
TvChosenOverDoor ==
    /\ isTerminalOpen
    /\ interactionType = "tv"
    /\ playerNearTV /\ playerNearDoor
    /\ instructions = "Press Enter to use TV Remote"

(* C4: the history never holds more than ten turns in any reachable      *)
(* state (the turns dropped by the truncation being the oldest ones).    *)
HistoryWithinCap == Len(messageHistory) <= HistoryCap

(* the one request in flight was submitted in the session that is open,  *)
(* and no other request has been in flight since it was submitted        *)
SoleFreshRequest ==
    /\ isTerminalOpen
    /\ Len(queries) = 1
    /\ queries[1].solo
    /\ ~queries[1].earlier

(* C5: a non-blank submit in an open session with no other request in    *)
(* flight, that succeeds while the session is still open, leaves the     *)
(* history as it was at the submit plus one user turn followed by one    *)
(* assistant turn, and nothing else.                                     *)
ExchangeAddsUserThenAssistant ==
    [][(QuerySucceeds(Responses) /\ SoleFreshRequest) =>
           \E r \in Responses :
               messageHistory' =
                   Append(TruncateHistory(Append(queries[1].before,
                                                 [role |-> "user",
                                                  content |-> queries[1].text,
                                                  earlier |-> FALSE])),
                          [role |-> "assistant",
                           content |-> <<[type |-> "text", text |-> r]>>,
                           earlier |-> FALSE])]_vars

(* C5 witness: in an open session with nothing in flight the history     *)
(* ends with the user turn and the assistant turn of the third exchange. *)
ThirdExchangeCompleted ==
    /\ isTerminalOpen
    /\ queries = <<>>
    /\ Len(messageHistory) = 6
    /\ messageHistory[5].role = "user"
    /\ messageHistory[6].role = "assistant"

HasThinkingLine(log) == \E i \in 1..Len(log) : IsThinkingLine(log[i])

HasErrorLine(log) == \E i \in 1..Len(log) : log[i].sender = "Error"

(* C6: once every request in flight has been resolved - here all of them *)
(* successfully - the log holds no "Processing..." placeholder.          *)
NoPlaceholderWhenSettled ==
    (queries = <<>> /\ ~HasErrorLine(terminalMessages))
        => ~HasThinkingLine(terminalMessages)

FailureStep == QueryFetchRejects \/ QueryBodyRejects \/ QueryHttpError

AssistantTurns(h) == {i \in 1..Len(h) : h[i].role = "assistant"}

(* C7: when the request fails, by a rejected fetch or by a non-success   *)
(* status, the log ends with the user's line followed by one error line, *)
(* the placeholder is gone and no assistant turn has been added.         *)
FailureShowsUserThenError ==
    [][(FailureStep /\ SoleFreshRequest) =>
           LET log == terminalMessages'
               n == Len(log)
           IN  /\ n >= 2
               /\ log[n].sender = "Error"
               /\ log[n - 1] = Line("You", queries[1].text)
               /\ ~HasThinkingLine(log)
               /\ Cardinality(AssistantTurns(messageHistory'))
                      = Cardinality(AssistantTurns(messageHistory))]_vars

(* C8: a failed exchange adds nothing to the history: after the failure  *)
(* the history equals the history before the submit.                     *)
FailureRestoresHistory ==
    [][(FailureStep /\ SoleFreshRequest) => messageHistory' = queries[1].before]_vars

(* C9: in an open session every turn of the history was produced by a    *)
(* submit made in that same session.                                     *)
HistoryOfThisSession ==
    isTerminalOpen => \A i \in 1..Len(messageHistory) : ~messageHistory[i].earlier

(* C10: the history is mutated only while a session is open: no step     *)
(* taken in Idle and ending in Idle changes it.                          *)
HistoryFixedInIdle ==
    [][(~isTerminalOpen /\ ~isTerminalOpen') => messageHistory' = messageHistory]_vars

(* the primary latest-image requests in flight *)
PrimaryRequests(p) == {i \in 1..Len(p) : p[i] = "primary"}

LegacyRequests(p) == {i \in 1..Len(p) : p[i] = "legacy"}

(* the gallery requests, primary or legacy, that a step issues: one more *)
(* request in flight, or a primary request replaced by a legacy one      *)
IssuesGalleryRequest ==
    \/ Len(polls') > Len(polls)
    \/ Cardinality(LegacyRequests(polls')) > Cardinality(LegacyRequests(polls))

CancelOfOpenSession ==
    /\ isTerminalOpen /\ interactionType = "tv" =>
           /\ polls' = Append(polls, "primary")
           /\ lastCheckedImageTime' = now
    /\ isTerminalOpen /\ interactionType # "tv" =>
           /\ polls' = polls
           /\ lastCheckedImageTime' = lastCheckedImageTime

(* C11 as stated: a cancel that closes a Tv session issues exactly one   *)
(* forced latest-image request, a cancel that closes a Computer session  *)
(* issues none, and a cancel in Idle issues none and changes nothing.    *)
CancelInIdleChangesNothing ==
    [][handleEscape => /\ CancelOfOpenSession
                       /\ ~isTerminalOpen => UNCHANGED vars]_vars

(* C11 amended: a cancel that closes a Tv session issues exactly one     *)
(* forced latest-image request whatever the time since the last poll, a  *)
(* cancel that closes a Computer session issues none, and a cancel in    *)
(* Idle issues none and changes nothing but the pointer lock, which it   *)
(* releases.                                                             *)
CancelPollsOnlyForTv ==
    [][handleEscape => /\ CancelOfOpenSession
                       /\ ~isTerminalOpen =>
                              /\ UNCHANGED <<avatar, session, flags, dom, chat, gallery>>
                              /\ ~mouseLocked']_vars

(* C11 witness: Idle after a Tv session was cancelled less than the      *)
(* minimum interval after the startup poll, the forced request in flight *)
ForcedPollSoonAfterStartup ==
    /\ ~isTerminalOpen
    /\ PrimaryRequests(polls) # {}
    /\ \E s \in StartTimes :
           lastCheckedImageTime > s /\ lastCheckedImageTime - s < MinPollInterval

(* times between two calls of checkForImages, in ms *)
PollGaps == {0, 1, 4000, 9999, 10000, 15000}

(* C12: two polls whose times differ by less than the minimum interval   *)
(* issue at most one latest-image request between them when there is no  *)
(* force-invalidation in between; and after a force-invalidation         *)
(* (lastCheckedImageTime = 0) the next poll issues a request whatever    *)
(* the elapsed time, and records the poll time.                          *)
PollsRespectInterval ==
    /\ \A d1 \in PollGaps, d2 \in PollGaps :
           LET first == checkForImages(lastCheckedImageTime, now + d1, polls)
               second == checkForImages(first.last, now + d1 + d2, first.polls)
           IN  d2 < MinPollInterval =>
                   Cardinality(PrimaryRequests(second.polls))
                       <= Cardinality(PrimaryRequests(polls)) + 1
    /\ \A d \in PollGaps :
           LET forced == checkForImages(0, now + d, polls)
           IN  /\ forced.polls = Append(polls, "primary")
               /\ forced.last = now + d

(* C12 witness: a poll was issued after startup and time has advanced    *)
(* since by less than the minimum interval                               *)
WithinIntervalOfLaterPoll ==
    /\ \E s \in StartTimes : lastCheckedImageTime > s
    /\ now > lastCheckedImageTime
    /\ now - lastCheckedImageTime < MinPollInterval

(* C13: while the session stays Idle the gallery is polled again and     *)
(* again as time advances, at least once per 10-second interval: the     *)
(* last latest-image request is never older than the minimum interval.   *)
PolledWithinInterval == now - lastCheckedImageTime <= MinPollInterval

(* C14: polling is suppressed while a session is open: no step taken in  *)
(* an open session issues a gallery request, neither the primary         *)
(* latest-image request nor the legacy fallback request.                 *)
NoGalleryRequestWhileOpen == [][isTerminalOpen => ~IssuesGalleryRequest]_vars

(* the interior footprint, the exterior hull and the door gap of the house *)
InFootprint(pos) == Abs(pos.x) <= HalfInnerSize /\ Abs(pos.z) <= HalfInnerSize

InHull(pos) == Abs(pos.x) <= HalfHouseSize /\ Abs(pos.z) <= HalfHouseSize

InDoorGap(pos) == Abs(pos.x) <= HalfDoorWidth /\ pos.z < -HalfInnerSize

(* C15: the avatar never overlaps a wall: it never lies in the band      *)
(* between the interior footprint and the exterior hull of the house,    *)
(* except inside the door gap of the front wall.                         *)
NeverInsideWall == (InHull(player) /\ ~InFootprint(player)) => InDoorGap(player)

InWorld(pos) == Abs(pos.x) <= HalfWorldSize /\ Abs(pos.z) <= HalfWorldSize

(* distance at least 1.2 m from every tree of trs *)
ClearOfTrees(pos, trs) == ~HitsTree(pos.x, pos.z, trs)

(* movement intents: keys held and heading, and frame lengths *)
Intents == {{"w"}, {"d"}, {"w", "d"}, {"s", "a"}} \X (0..3)
StepLengths == {1, 12, 24, 120, 2000}

(* the position after one locomotion step from pos *)
StepFrom(pos, intent, v, trs) ==
    LET dir == MoveDirection(intent[1], intent[2])
    IN  IF dir.x # 0 \/ dir.z # 0
        THEN MovePlayer(pos, FALSE, ScaledMove(dir, v), trs).pos
        ELSE pos

(* start positions next to the trees and at the corners of the world *)
Offsets == {-30, -24, 0, 24, 30}
StartPositions ==
    {[x |-> t.x + dx, y |-> PLAYER_HEIGHT, z |-> t.z + dz] :
              t \in trees, dx \in Offsets, dz \in Offsets}
    \cup {[x |-> sx * HalfWorldSize, y |-> PLAYER_HEIGHT, z |-> sz * (HalfWorldSize - 6)] :
              sx \in {-1, 1}, sz \in {-1, 1}}

(* C16: from every start position inside the world bounds and at least  *)
(* 1.2 m from every tree, one locomotion step with any intent and any    *)
(* frame length ends inside the world bounds and at least 1.2 m from     *)
(* every tree; hence both hold in every reachable state, also after door *)
(* activations.                                                          *)
StepStaysInWorldClearOfTrees ==
    /\ InWorld(player) /\ ClearOfTrees(player, trees)
    /\ \A intent \in Intents, v \in StepLengths :
           LET after == StepFrom(player, intent, v, trees)
           IN  InWorld(after) /\ ClearOfTrees(after, trees)
    /\ player = SpawnPosition =>
           \A pos \in StartPositions, intent \in Intents, v \in StepLengths :
               (InWorld(pos) /\ ClearOfTrees(pos, trees)) =>
                   LET after == StepFrom(pos, intent, v, trees)
                   IN  InWorld(after) /\ ClearOfTrees(after, trees)

(* the candidate position of a step after clamping and wall push-back *)
Candidate(pos, intent, v) ==
    LET d == ScaledMove(MoveDirection(intent[1], intent[2]), v)
        cx == Clamp(pos.x + d.x)
        cz == Clamp(pos.z + d.z)
    IN  IF IsInHouse(cx, cz)
        THEN InsideCollision(cx, cz)
        ELSE LET c == OutsideCollision(cx, cz, FALSE) IN [x |-> c.x, z |-> c.z]

Moves(intent) ==
    LET dir == MoveDirection(intent[1], intent[2]) IN dir.x # 0 \/ dir.z # 0

(* C16 witness: the avatar stands one short step in front of a tree      *)
(* after walking there from the door                                     *)
NextToTree ==
    /\ \E t \in trees : Sq(player.x - t.x) + Sq(player.z - t.z) < Sq(TreeRadius + 12)
    /\ playerNearDoor = FALSE
    /\ mouseLocked

(* C17: when the candidate position of a step, after clamping and wall   *)
(* push-back, lies within a tree's radius, the move is rejected whole:   *)
(* x and z after the step equal x and z before it, without sliding.      *)
TreeHitRejectsWholeMove ==
    \A intent \in Intents, v \in StepLengths :
        LET c == Candidate(player, intent, v)
        IN  (Moves(intent) /\ ~IsInHouse(c.x, c.z) /\ HitsTree(c.x, c.z, trees)) =>
                LET after == StepFrom(player, intent, v, trees)
                IN  after.x = player.x /\ after.z = player.z

(* C17 witness: the avatar walks forward and sideways with the mouse     *)
(* locked and the step it is taking lands within the tree's radius       *)
WalkingIntoTree ==
    /\ mouseLocked /\ ~isTerminalOpen
    /\ keysPressed = {"w", "d"}
    /\ \E v \in WalkSpeeds :
           LET c == Candidate(player, <<keysPressed, yaw>>, v)
           IN  ~IsInHouse(c.x, c.z) /\ HitsTree(c.x, c.z, trees)

(* C18: the vertical coordinate is the indoor floor level exactly when   *)
(* the horizontal position lies in the house footprint, and the outdoor  *)
(* ground level otherwise, in every reachable state.                     *)
HeightMatchesZone ==
    player.y = (IF InFootprint(player) THEN PLAYER_HEIGHT + IndoorLift ELSE PLAYER_HEIGHT)

(* a commit in Idle that activates the door *)
DoorCommit ==
    /\ ~isTerminalOpen
    /\ ~playerNearComputer /\ ~playerNearTV /\ playerNearDoor
    /\ handleEnter

(* just outside the door opening: outside the hull, in front of the gap *)
OutsideDoorOpening(pos) ==
    /\ ~InHull(pos)
    /\ Abs(pos.x) <= HalfDoorWidth
    /\ pos.z < -HalfHouseSize

(* C19: a commit that activates the door changes the zone: from inside   *)
(* the footprint the avatar ends just outside the door opening, from     *)
(* outside it ends inside the footprint.                                 *)
DoorChangesZone ==
    [][DoorCommit => IF InFootprint(player)
                     THEN OutsideDoorOpening(player')
                     ELSE InFootprint(player')]_vars

(* within interaction range of the door opening in the front wall *)
NearDoorOpening(pos) ==
    Sq(pos.x) + Sq(pos.z + HalfHouseSize) < Sq(INTERACTION_DISTANCE)

(* C20: after every frame step each proximity flag reflects the current  *)
(* position: the computer and TV flags are set exactly within their      *)
(* interaction range, and the door flag is set only near the door        *)
(* opening, never left over from an earlier position.                    *)
FlagsFreshAfterFrame ==
    [][(\E v \in Speeds \cup WalkSpeeds : updatePlayerMovement(v)) /\ ~MovementFrozen =>
           /\ playerNearComputer' = WithinInteraction(player', ComputerPosition)
           /\ playerNearTV' = WithinInteraction(player', TvPosition)
           /\ playerNearDoor' => NearDoorOpening(player')]_vars

(* the fetchStatus call made by openTerminalUi has run to its end *)
StatusFetchResolved == statusFetches = <<>>

(* C21: in a session opened on the TV the status line shows the TV      *)
(* label: from the commit until the cancel, once the status fetch        *)
(* started at open has resolved, the status line reads                   *)
(* "TV REMOTE CONTROL" and not the generic terminal label.               *)
TvLabelAfterStatusFetch ==
    (isTerminalOpen /\ interactionType = "tv" /\ StatusFetchResolved)
        => terminalStatus = "TV REMOTE CONTROL"

(* a step in which a fetchStatus call runs to its end *)
StatusFetchResolves == Len(statusFetches') < Len(statusFetches)

(* a non-blank submit in an open session whose status fetch has resolved *)
SubmitAfterStatusFetch ==
    /\ handleEnter
    /\ isTerminalOpen /\ inputFocused /\ Trim(terminalInput) # ""
    /\ StatusFetchResolved

(* C22: the outcome of the status fetch never affects the session:      *)
(* whenever and however it resolves, the session state, the session     *)
(* kind and the conversation history are left unchanged, and a          *)
(* non-blank submit made afterwards in the still-open session issues a  *)
(* query request for the submitted text.                                *)
StatusOutcomeLeavesSessionUsable ==
    [][/\ StatusFetchResolves => UNCHANGED <<session, messageHistory, queries>>
       /\ SubmitAfterStatusFetch =>
              /\ Len(queries') = Len(queries) + 1
              /\ queries'[Len(queries')].text = terminalInput
              /\ queries'[Len(queries')].pc = "fetch"
              /\ isTerminalOpen' /\ interactionType' = interactionType]_vars

(* C22 witness: a session still open after its status fetch resolved,   *)
(* with turns in the history and a request of this session in flight    *)
RequestInFlightAfterStatusFetch ==
    /\ isTerminalOpen
    /\ StatusFetchResolved /\ terminalStatus = "MCP TERMINAL"
    /\ Len(messageHistory) >= 3
    /\ queries # <<>> /\ ~queries[Len(queries)].earlier

(* the submit of the text entry: one more request in flight, for the   *)
(* entered text, and the user turn appended to the retained history    *)
SubmitsTextEntry ==
    /\ inputFocused /\ Trim(terminalInput) # ""
    /\ Len(queries') = Len(queries) + 1
    /\ queries'[Len(queries')].text = terminalInput
    /\ messageHistory' = TruncateHistory(Append(messageHistory, UserTurn(terminalInput)))
    /\ messageHistory' # <<>>

(* C23: a commit while a session is Open never changes the session     *)
(* state: the session stays Open with the same kind, the history is    *)
(* not cleared, no second status fetch is started and no fixture is    *)
(* activated (no terminal reopened, no door passed), whatever the      *)
(* proximity flags are; its only possible effect is to submit the      *)
(* current text entry.                                                 *)
CommitWhileOpenOnlySubmits ==
    [][(handleEnter /\ isTerminalOpen) =>
           /\ UNCHANGED <<session, statusFetches, avatar, pointer, flags, gallery,
                          instructions, terminalStatus, inputFocused>>
           /\ \/ UNCHANGED <<messageHistory, queries, terminalMessages, terminalInput>>
              \/ SubmitsTextEntry]_vars

(* C23 witness: an open TV session with the avatar still in range of    *)
(* the TV, after a commit in the session submitted a request, with the  *)
(* one status fetch of the open still in flight                         *)
SubmittedBesideFixture ==
    /\ isTerminalOpen /\ interactionType = "tv" /\ playerNearTV
    /\ Len(statusFetches) = 1
    /\ Len(queries) = 1 /\ ~queries[1].earlier
    /\ messageHistory # <<>>

(* the request behind a gallery request in flight: checkForImages       *)
(* fetches /latest-image (line 1634) and, from its catch handler,       *)
(* /api/latest-image (line 1663), both with the default method          *)
Endpoint(kind) ==
    IF kind = "primary"
    THEN [method |-> "GET", path |-> "/latest-image"]
    ELSE [method |-> "GET", path |-> "/api/latest-image"]

(* the route of the image server that picks a random image file *)
GenerateImageEndpoint == [method |-> "POST", path |-> "/generate-image"]

(* the requests that a step adds to the gallery requests in flight *)
RequestsIssued ==
    {Endpoint(polls'[i]) : i \in (Len(polls) + 1)..Len(polls')}

(* C24: a new image requested through the TV remote is a random image   *)
(* of the directory: ending a TV session issues a request to the        *)
(* image-selection endpoint, POST /generate-image.                      *)
TvCancelRequestsRandomImage ==
    [][(handleEscape /\ isTerminalOpen /\ interactionType = "tv") =>
           GenerateImageEndpoint \in RequestsIssued]_vars

(* a step of handleKeyDown that issues a query request *)
IssuesQueryRequest == handleEnter /\ Len(queries') = Len(queries) + 1

LegacyIssued ==
    Cardinality(LegacyRequests(polls')) - Cardinality(LegacyRequests(polls))

(* a step in which the answer, or the failure, of a legacy request is handled *)
LegacyRequestEnds ==
    PollLegacyImage(Urls) \/ PollLegacyEmpty \/ PollLegacyFails

(* C26 as stated: on a due poll the legacy endpoint is requested exactly *)
(* once when the primary request fails outright and when the primary     *)
(* response carries neither the imageUrl nor the latestImage field, zero *)
(* times when the primary response carries an identifier, and never      *)
(* more than once per poll.                                              *)
LegacyOnFailureOrMissingField ==
    [][/\ PollPrimaryFails => LegacyIssued = 1
       /\ PollPrimaryEmpty => LegacyIssued = 1
       /\ PollPrimaryImage(Urls) => LegacyIssued = 0
       /\ LegacyRequestEnds => ~IssuesGalleryRequest]_vars

(* C26 amended: the legacy endpoint is requested exactly once when the   *)
(* primary request fails outright, and zero times when the primary       *)
(* response is read, whether it carries an identifier or neither field;  *)
(* the end of a legacy request issues no further request, so there is    *)
(* never more than one legacy request per poll.                          *)
LegacyOnFailureOnly ==
    [][/\ PollPrimaryFails => LegacyIssued = 1
       /\ PollPrimaryEmpty => (LegacyIssued = 0 /\ ~IssuesGalleryRequest)
       /\ PollPrimaryImage(Urls) => (LegacyIssued = 0 /\ ~IssuesGalleryRequest)
       /\ LegacyRequestEnds => (LegacyIssued = -1 /\ ~IssuesGalleryRequest)
       /\ LegacyIssued <= 1]_vars

(* C26 witness: a legacy request in flight for the poll forced by the   *)
(* end of a TV session, after the startup poll was answered with an     *)
(* identifier                                                           *)
LegacyRequestAfterAnsweredPoll ==
    /\ LegacyRequests(polls) # {}
    /\ loadsIssued > 0
    /\ ~isTerminalOpen

(* the image shown on the TV: the URL of the texture mapped on the     *)
(* display, or the empty URL when the display shows the plain colour   *)
DisplayedImage ==
    IF imageMaterial.kind = "map" THEN texturesCreated[imageMaterial.map] ELSE <<>>

(* a step in which a gallery answer carrying the identifier u is handled *)
PollResolvesTo(u) == PollPrimaryImage({u}) \/ PollLegacyImage({u})

(* C27: a poll whose resolved image identifier equals the identifier of *)
(* the image currently displayed is a no-op on the display: it starts   *)
(* no texture load, disposes nothing and leaves the displayed image and *)
(* the image cache unchanged.                                           *)
SameImageIsNotReloaded ==
    [][\A u \in Urls :
           (PollResolvesTo(u) /\ FullImageUrl(u) = DisplayedImage) => UNCHANGED display]_vars

(* the textures that were loaded and on which dispose() was not called *)
LiveTextures == {t \in 1..Len(texturesCreated) : t \notin disposedTextures}

(* no gallery request and no texture load is in flight *)
AllLoadsResolved == polls = <<>> /\ imageLoads = <<>>

(* C28: repeated polling does not leak textures: once all image loads   *)
(* have resolved, whether they overlapped or failed, every texture that *)
(* was ever loaded has been disposed except the one currently           *)
(* displayed, and the displayed texture is not a disposed one.          *)
NoTextureLeak ==
    AllLoadsResolved =>
        /\ \A t \in LiveTextures : imageMaterial.kind = "map" /\ imageMaterial.map = t
        /\ Cardinality(LiveTextures) <= 1
        /\ imageMaterial.kind = "map" => imageMaterial.map \in LiveTextures

(* C29: when image loads are in flight at the same time, the result of *)
(* a load that is not the most recently issued one is discarded:        *)
(* whatever the order in which they resolve, once all of them have      *)
(* resolved the display shows the outcome of the most recently issued   *)
(* load, its texture or the placeholder if that load failed.            *)
DisplayShowsLatestLoad ==
    (imageLoads = <<>> /\ loadsIssued > 0) => imageMaterial.load = loadsIssued

(* the files into which the data of image i was written, i counted from 1 *)
FilesOf(i) == {f \in toolCall.files : f.image = i}

(* C30: in the response of the image-generation tool, for every         *)
(* generated image i the "Saved to" path reported for image i is the    *)
(* path of the file into which image i's own data was written, and an   *)
(* image whose save failed is reported with the "could not be saved     *)
(* locally" warning, for every pattern of save successes and failures.  *)
ReportedPathsMatchImages ==
    toolCall.pc = "done" =>
        \A i \in 1..Len(toolCall.imageData) :
            toolCall.imageData[i] # "none" =>
                LET line == toolCall.responseText[i]
                IN  IF FilesOf(i) # {}
                    THEN /\ line.saved.label = SavedTo
                         /\ \E f \in FilesOf(i) : f.path = line.saved.path
                    ELSE line.saved.label = NotSaved

====
